---- MODULE Spec2Model ----
(***************************************************************************)
(* A model of src/tile_cache.py: the TileCache class, its tile geometry,   *)
(* the per-tile on-disk cache (_fetch_tile) and the query loop and merge   *)
(* of get_merged_data.                                                     *)
(*                                                                         *)
(* Geographic coordinates are integers in units of 1/UnitsPerDegree of a   *)
(* degree; planar coordinates are integers in metres.  The UTM projection  *)
(* the code obtains from pyproj is modelled as the affine map of its zone  *)
(* (central meridian, false easting) and hemisphere (false northing).      *)
(***************************************************************************)
EXTENDS Integers, Sequences, FiniteSets, TLC

VARIABLES
    tile_size,   \* self.tile_size of the TileCache instance
    store,       \* the cache directory: tile_path -> pickled file
    pc,          \* per process: position in get_merged_data / _fetch_tile
    q,           \* per process: the arguments (lat, lon, dist_m) of the query
    crs,         \* per process: utm_crs behind to_utm / to_wgs, and zone
    tiles,       \* per process: the list returned by _get_required_tiles
    idx,         \* per process: position of the for loop over tiles (1-based)
    loc,         \* per process: locals of the running _fetch_tile call
    acc,         \* per process: graphs, waters, parks_list
    result,      \* per process: what the last get_merged_data call gave
    calls,       \* per process, history: the (tx, ty) _fetch_tile was called with
    nq,          \* number of queries started so far
    reqs,        \* history: tile_path -> number of external requests issued
    failedReqs,  \* history: tile_paths whose external request raised
    faults,      \* history: number of _fetch_tile calls hit by a service fault
    hist         \* per process, history: the store and the request counts when
                 \* the query began, its cache misses, its failed storage operation

vars == <<tile_size, store, pc, q, crs, tiles, idx, loc, acc, result, calls,
          nq, reqs, failedReqs, faults, hist>>

-----------------------------------------------------------------------------
(* Program constants *)

TILE_SIZE_M == 1000

\* The projection (pyproj, "+proj=utm +zone=.. +north|+south +datum=WGS84"),
\* linearised: 1 degree = UnitsPerDegree units = 100 km.
UnitsPerDegree == 400
MetresPerUnit == 250
FalseEasting == 500000
FalseNorthing == 10000000

(* Bounds of the model *)
MaxQueries == 2
MaxCalmQueries == 3
MaxFaultQueries == 3
MaxConcQueries == 2
MaxWideQueries == 2
MaxWideFaults == 0
MaxFaultyFetches == 1

Procs == {1, 2}
KindSet == {"graph", "water", "parks"}

-----------------------------------------------------------------------------
(* Python values *)

None == [tag |-> "None"]
Some(v) == [tag |-> "Some", v |-> v]
IsNone(x) == x.tag = "None"

\* int(a / b) for b > 0: truncation towards zero
TruncDiv(a, b) == IF a >= 0 THEN a \div b ELSE -((-a) \div b)

\* mutant: int(a / b) where the code has math.floor(a / b)
FloorDiv_trunc(a, b) == TruncDiv(a, b)

\* math.floor(a / b) for b > 0
FloorDiv(a, b) == a \div b

Range(s) == {s[k] : k \in 1..Len(s)}

-----------------------------------------------------------------------------
(* Coordinate projection *)

get_utm_zone(lon) == TruncDiv(lon + 180 * UnitsPerDegree, 6 * UnitsPerDegree) + 1

\* utm_crs; to_utm and to_wgs are the two directions of this one projection
get_transformers(lat, lon) ==
    [zone |-> get_utm_zone(lon),
     hemisphere |-> IF lat >= 0 THEN "north" ELSE "south"]

\* mutant: only a zone below 1 is refused
from_crs_raises_low(lat, lon) == get_utm_zone(lon) < 1

\* Transformer.from_crs raises CRSError for a "+proj=utm +zone=.." string whose
\* zone is not one of 1..60 (lon >= 180 degrees or lon <= -186 degrees)
from_crs_raises(lat, lon) == get_utm_zone(lon) \notin 1..60

CentralMeridian(zone) == ((zone - 1) * 6 - 180 + 3) * UnitsPerDegree

\* to_utm.transform(lon, lat) -> (x, y)
to_utm_transform(utm, lon, lat) ==
    <<FalseEasting + MetresPerUnit * (lon - CentralMeridian(utm.zone)),
      (IF utm.hemisphere = "south" THEN FalseNorthing ELSE 0) + MetresPerUnit * lat>>

\* to_wgs.transform(x, y) -> (lon, lat)
to_wgs_transform(utm, x, y) ==
    <<CentralMeridian(utm.zone) + FloorDiv(x - FalseEasting, MetresPerUnit),
      FloorDiv(y - (IF utm.hemisphere = "south" THEN FalseNorthing ELSE 0), MetresPerUnit)>>

-----------------------------------------------------------------------------
(* Tile geometry *)

lat_lon_to_tile(lat, lon, to_utm) ==
    LET xy == to_utm_transform(to_utm, lon, lat)
    IN  <<FloorDiv(xy[1], tile_size), FloorDiv(xy[2], tile_size)>>

\* (north, south, east, west)
tile_to_bbox(tx, ty, to_wgs) ==
    LET x_min == tx * tile_size
        x_max == (tx + 1) * tile_size
        y_min == ty * tile_size
        y_max == (ty + 1) * tile_size
        mn == to_wgs_transform(to_wgs, x_min, y_min)
        mx == to_wgs_transform(to_wgs, x_max, y_max)
    IN  <<mx[2], mn[2], mx[1], mn[1]>>

\* mutant: range(tx_min, tx_max) and range(ty_min, ty_max), without the + 1
get_required_tiles_exclusive(lat, lon, dist_m, to_utm) ==
    LET c == to_utm_transform(to_utm, lon, lat)
        tx_min == FloorDiv(c[1] - dist_m, tile_size)
        tx_max == FloorDiv(c[1] + dist_m, tile_size)
        ty_min == FloorDiv(c[2] - dist_m, tile_size)
        ty_max == FloorDiv(c[2] + dist_m, tile_size)
        nx == IF tx_max > tx_min THEN tx_max - tx_min ELSE 0
        ny == IF ty_max > ty_min THEN ty_max - ty_min ELSE 0
    IN  [k \in 1..(nx * ny) |->
            <<tx_min + ((k - 1) \div ny), ty_min + ((k - 1) % ny)>>]

\* [(tx, ty) for tx in range(tx_min, tx_max + 1) for ty in range(ty_min, ty_max + 1)]
get_required_tiles(lat, lon, dist_m, to_utm) ==
    LET c == to_utm_transform(to_utm, lon, lat)
        tx_min == FloorDiv(c[1] - dist_m, tile_size)
        tx_max == FloorDiv(c[1] + dist_m, tile_size)
        ty_min == FloorDiv(c[2] - dist_m, tile_size)
        ty_max == FloorDiv(c[2] + dist_m, tile_size)
        nx == IF tx_max >= tx_min THEN tx_max - tx_min + 1 ELSE 0
        ny == IF ty_max >= ty_min THEN ty_max - ty_min + 1 ELSE 0
    IN  [k \in 1..(nx * ny) |->
            <<tx_min + ((k - 1) \div ny), ty_min + ((k - 1) % ny)>>]

\* os.path.join(cache_dir, f"z{zone}_{data_type}_{tx}_{ty}.pkl"): the name
\* holds exactly these four fields, and neither hemisphere nor tile size
tile_path(tx, ty, zone, data_type) == <<zone, data_type, tx, ty>>

-----------------------------------------------------------------------------
(* The external map-data service (osmnx): a fixed world, queried by bbox *)

WorldNodes ==
    { [id |-> 1, lat |-> 18002, lon |-> -29998],
      [id |-> 2, lat |-> 18002, lon |-> -29996],
      [id |-> 3, lat |-> 18002, lon |-> -29994],
      [id |-> 4, lat |-> -21998, lon |-> -29998] }

WorldEdges == { [u |-> 1, v |-> 2], [u |-> 2, v |-> 3] }

\* rows in the order the service lists them
WorldWater == << [index |-> 11, geometry |-> <<18002, -29996>>] >>
WorldParks == << [index |-> 21, geometry |-> <<18002, -29994>>] >>

\* bbox is (north, south, east, west); its edges belong to it
InBBox(lat, lon, bbox) ==
    /\ bbox[2] <= lat /\ lat <= bbox[1]
    /\ bbox[4] <= lon /\ lon <= bbox[3]

\* ox.graph_from_bbox(bbox=bbox, network_type='all', truncate_by_edge=True):
\* a graph whose node and edge attributes are those of this one download
\* (attr names the bbox it was made for); raises when the area has no nodes
graph_from_bbox(bbox) ==
    LET ns == {n \in WorldNodes : InBBox(n.lat, n.lon, bbox)}
        ids == {n.id : n \in ns}
    IN  IF ns = {} THEN None
        ELSE Some([nodes |-> {[id |-> n.id, attr |-> bbox] : n \in ns},
                   edges |-> {[id |-> <<e.u, e.v>>, attr |-> bbox] :
                                 e \in {e \in WorldEdges : e.u \in ids /\ e.v \in ids}}])

\* ox.features_from_bbox(bbox=bbox, tags=...): a GeoDataFrame indexed by the
\* service's identifiers, possibly without rows
features_from_bbox(bbox, data_type) ==
    LET all == IF data_type = "water" THEN WorldWater ELSE WorldParks
        In(r) == InBBox(r.geometry[1], r.geometry[2], bbox)
    IN  Some([index_names |-> <<"osmid">>,
              columns |-> {"geometry"},
              rows |-> SelectSeq(all, In)])

\* the request of one dataset; None stands for "the call raised"
ServiceRequest(data_type, bbox) ==
    IF data_type = "graph" THEN graph_from_bbox(bbox)
    ELSE features_from_bbox(bbox, data_type)

-----------------------------------------------------------------------------
(* pandas / networkx primitives used by the merge *)

\* the name of an unnamed index level (Python's None used as a name)
NoName == "(None)"

EmptyGraph == [nodes |-> {}, edges |-> {}]

\* nx.compose(G, H): the union; "attributes from H take precedence"
ComposeEntries(G, H) == H \cup {g \in G : \A h \in H : h.id # g.id}

compose(G, H) ==
    [nodes |-> ComposeEntries(G.nodes, H.nodes),
     edges |-> ComposeEntries(G.edges, H.edges)]

RECURSIVE ComposeFrom(_, _, _)
\* merged_graph = graphs[0]; for g in graphs[1:]: merged_graph = nx.compose(merged_graph, g)
ComposeFrom(merged, graphs, k) ==
    IF k > Len(graphs) THEN merged
    ELSE ComposeFrom(compose(merged, graphs[k]), graphs, k + 1)

RECURSIVE ConcatRows(_, _)
ConcatRows(frames, k) ==
    IF k > Len(frames) THEN <<>>
    ELSE frames[k].rows \o ConcatRows(frames, k + 1)

\* pd.concat(frames, ignore_index=True): the rows in order, renumbered
\* 0..n-1 by a fresh index that has no name
concat_ignore_index(frames) ==
    LET rows == ConcatRows(frames, 1)
    IN  [index_names |-> <<NoName>>,
         columns |-> UNION {frames[k].columns : k \in 1..Len(frames)},
         rows |-> [k \in 1..Len(rows) |-> [rows[k] EXCEPT !.index = k - 1]]]

\* the value of "df.index.names or None": a non-empty list is truthy
SubsetArg(df) == IF Len(df.index_names) > 0 THEN Some(df.index_names) ELSE None

\* df.drop_duplicates(subset=...) raises KeyError when the frame has rows and
\* subset names something that is no column of it
DropDuplicatesRaises(df, subset) ==
    /\ Len(df.rows) > 0
    /\ ~IsNone(subset)
    /\ \E k \in 1..Len(subset.v) : subset.v[k] \notin df.columns

\* the columns rows are compared on: all of them for subset=None
SameOn(r1, r2, df, subset) ==
    IF IsNone(subset) THEN r1.geometry = r2.geometry
    ELSE \A c \in Range(subset.v) : c = "geometry" => r1.geometry = r2.geometry

\* df.drop_duplicates(subset=...) when it does not raise: the first of equal rows
drop_duplicates(df, subset) ==
    LET Keep(k) == \A j \in 1..(k - 1) : ~SameOn(df.rows[j], df.rows[k], df, subset)
        kept == {k \in 1..Len(df.rows) : Keep(k)}
        Nth(n) == CHOOSE k \in kept : Cardinality({j \in kept : j < k}) = n - 1
    IN  [df EXCEPT !.rows = [n \in 1..Cardinality(kept) |-> df.rows[Nth(n)]]]

\* mutant: without graphs the merged graph is left None
MergeGraphs_none(graphs) ==
    IF Len(graphs) > 0 THEN Some(ComposeFrom(graphs[1], graphs, 2))
    ELSE None

\* lines 132-137: the composed graph, or nx.MultiDiGraph()
MergeGraphs(graphs) ==
    IF Len(graphs) > 0 THEN Some(ComposeFrom(graphs[1], graphs, 2))
    ELSE Some(EmptyGraph)

\* lines 131-154: the merged graph, then water, then parks
MergeResult(graphs, waters, parks_list) ==
    LET merged_graph == MergeGraphs(graphs)
        cw == concat_ignore_index(waters)
        cp == concat_ignore_index(parks_list)
    IN  IF Len(waters) > 0 /\ DropDuplicatesRaises(cw, SubsetArg(cw))
            THEN [status |-> "raised", exc |-> "KeyError"]
        ELSE IF Len(parks_list) > 0 /\ DropDuplicatesRaises(cp, SubsetArg(cp))
            THEN [status |-> "raised", exc |-> "KeyError"]
        ELSE [status |-> "returned",
              graph |-> merged_graph,
              water |-> IF Len(waters) > 0
                        THEN Some(drop_duplicates(cw, SubsetArg(cw))) ELSE None,
              parks |-> IF Len(parks_list) > 0
                        THEN Some(drop_duplicates(cp, SubsetArg(cp))) ELSE None]

-----------------------------------------------------------------------------
(* Inputs *)

\* (lat, lon): a point of zone 18 north; the point of zone 18 south with the
\* same planar coordinates; a point 250 m east of the boundary between zones
\* 17 and 18
Centres == { <<18002, -29998>>, <<-21998, -29998>>, <<18002, -31199>> }
Radii == {0, 500}
WideRadii == {1500}

NoQuery == [lat |-> 0, lon |-> 0, dist_m |-> 0]
NoCrs == [to_utm |-> get_transformers(0, 0), to_wgs |-> get_transformers(0, 0), zone |-> 0]
NoLoc == [tx |-> 0, ty |-> 0, hit |-> FALSE, bbox |-> None,
          art |-> [graph |-> None, water |-> None, parks |-> None],
          raised |-> {}, faulty |-> FALSE]
NoAcc == [graphs |-> <<>>, waters |-> <<>>, parks_list |-> <<>>]
NoResult == [status |-> "none"]
NoHist == [store0 |-> [k \in {} |-> None], reqs0 |-> [k \in {} |-> 0], misses |-> 0, io |-> None]

Init ==
    /\ tile_size = TILE_SIZE_M
    /\ store = [k \in {} |-> None]
    /\ pc = [p \in Procs |-> "idle"]
    /\ q = [p \in Procs |-> NoQuery]
    /\ crs = [p \in Procs |-> NoCrs]
    /\ tiles = [p \in Procs |-> <<>>]
    /\ idx = [p \in Procs |-> 1]
    /\ loc = [p \in Procs |-> NoLoc]
    /\ acc = [p \in Procs |-> NoAcc]
    /\ result = [p \in Procs |-> NoResult]
    /\ calls = [p \in Procs |-> <<>>]
    /\ nq = 0
    /\ reqs = [k \in {} |-> 0]
    /\ failedReqs = {}
    /\ faults = 0
    /\ hist = [p \in Procs |-> NoHist]

-----------------------------------------------------------------------------
(* get_merged_data *)

CurTile(p) == tiles[p][idx[p]]

\* mutant: the file name takes the zone in which the tile itself lies
PathOf_tilezone(p, data_type) ==
    tile_path(loc[p].tx, loc[p].ty,
              get_utm_zone(tile_to_bbox(loc[p].tx, loc[p].ty, crs[p].to_wgs)[4]), data_type)

\* lines 66-68 with the zone that line 123 passes
PathOf(p, data_type) == tile_path(loc[p].tx, loc[p].ty, crs[p].zone, data_type)

\* what a call that ended in an exception gave
Raised(exc) == [status |-> "raised", exc |-> exc]

\* lines 110-120: the transformers, the zone and the covering tiles of the
\* query (line 115 only reads the store, to print a count).  An exception of
\* line 110 leaves get_merged_data at once
get_merged_data(p, lat, lon, dist_m) ==
    /\ pc[p] \in {"idle", "returned", "raised"}
    /\ q' = [q EXCEPT ![p] = [lat |-> lat, lon |-> lon, dist_m |-> dist_m]]
    /\ IF from_crs_raises(lat, lon)
       THEN /\ crs' = [crs EXCEPT ![p] = NoCrs]
            /\ tiles' = [tiles EXCEPT ![p] = <<>>]
            /\ pc' = [pc EXCEPT ![p] = "raised"]
            /\ result' = [result EXCEPT ![p] = Raised("CRSError")]
       ELSE LET t == get_transformers(lat, lon)
                zone == get_utm_zone(lon)
                tl == get_required_tiles(lat, lon, dist_m, t)
            IN  /\ crs' = [crs EXCEPT ![p] = [to_utm |-> t, to_wgs |-> t, zone |-> zone]]
                /\ tiles' = [tiles EXCEPT ![p] = tl]
                /\ pc' = [pc EXCEPT ![p] = IF Len(tl) > 0 THEN "call" ELSE "merge"]
                /\ result' = [result EXCEPT ![p] = NoResult]
    /\ idx' = [idx EXCEPT ![p] = 1]
    /\ loc' = [loc EXCEPT ![p] = NoLoc]
    /\ acc' = [acc EXCEPT ![p] = NoAcc]
    /\ calls' = [calls EXCEPT ![p] = <<>>]
    /\ nq' = nq + 1
    /\ hist' = [hist EXCEPT ![p] = [store0 |-> store, reqs0 |-> reqs, misses |-> 0, io |-> None]]
    /\ UNCHANGED <<tile_size, store, reqs, failedReqs, faults>>

\* mutant: the check looks for a file name that is never written
CacheHit_typo(tx, ty, zone) == tile_path(tx, ty, zone, "graphs") \in DOMAIN store

\* mutant: the check asks for all three files
CacheHit_allThree(tx, ty, zone) ==
    \A k \in KindSet : tile_path(tx, ty, zone, k) \in DOMAIN store

\* line 71: os.path.exists(graph_path)
CacheHit(tx, ty, zone) == tile_path(tx, ty, zone, "graph") \in DOMAIN store

\* lines 122-123 and 66-71, 81: the call of _fetch_tile for the next tile, its
\* cache check and, on a miss, the bbox
CheckCache(p) ==
    /\ pc[p] = "call"
    /\ LET tx == CurTile(p)[1]
           ty == CurTile(p)[2]
           hit == CacheHit(tx, ty, crs[p].zone)
       IN  /\ loc' = [loc EXCEPT ![p] =
                        [NoLoc EXCEPT !.tx = tx, !.ty = ty, !.hit = hit,
                                      !.bbox = IF hit THEN None
                                               ELSE Some(tile_to_bbox(tx, ty, crs[p].to_wgs))]]
           /\ pc' = [pc EXCEPT ![p] = IF hit THEN "rd_graph" ELSE "fx_graph"]
           /\ calls' = [calls EXCEPT ![p] = Append(@, <<tx, ty>>)]
           /\ hist' = [hist EXCEPT ![p].misses = IF hit THEN @ ELSE @ + 1]
    /\ UNCHANGED <<tile_size, store, q, crs, tiles, idx, acc, result, nq,
                   reqs, failedReqs, faults>>

\* the file a pickle.dump leaves; bbox is history (the area the value was
\* requested for), not part of the file
Pickled(value, bbox) == [val |-> value, bbox |-> bbox]

PutFile(st, path, file) == [k \in DOMAIN st \cup {path} |-> IF k = path THEN file ELSE st[k]]

\* the file an interrupted pickle.dump leaves: open(path, 'wb') has created
\* it, and pickle.load of it raises
Truncated == [val |-> [tag |-> "Truncated"], bbox |-> None]

\* open(path, 'rb') and pickle.load(f) both succeed
Loadable(st, path) == path \in DOMAIN st /\ st[path].val.tag # "Truncated"

\* the exception of a read that cannot succeed
ReadError(st, path) == IF path \in DOMAIN st THEN "UnpicklingError" ELSE "FileNotFoundError"

\* mutant: the storage operations sit in a try/except, like the requests,
\* and the call returns what it has
Abort_caught(p, op, path, exc) ==
    /\ pc' = [pc EXCEPT ![p] = "collect"]
    /\ UNCHANGED result
    /\ hist' = [hist EXCEPT ![p].io = Some(<<op, path>>)]

\* a storage operation raised: nothing catches it, so it leaves _fetch_tile
\* and get_merged_data (op is history: the operation and the path)
Abort(p, op, path, exc) ==
    /\ pc' = [pc EXCEPT ![p] = "raised"]
    /\ result' = [result EXCEPT ![p] = Raised(exc)]
    /\ hist' = [hist EXCEPT ![p].io = Some(<<op, path>>)]

\* mutant: a file that cannot be loaded counts as a cached None
ReadArtifact_missingNone(p, data_type, next) ==
    /\ pc[p] = "rd_" \o data_type
    /\ loc' = [loc EXCEPT ![p].art[data_type] =
                    IF Loadable(store, PathOf(p, data_type))
                    THEN store[PathOf(p, data_type)].val ELSE None]
    /\ pc' = [pc EXCEPT ![p] = next]
    /\ UNCHANGED <<tile_size, store, q, crs, tiles, idx, acc, result, calls, nq,
                   reqs, failedReqs, faults, hist>>

\* mutant: a cache hit saves the artifact again after loading it
ReadArtifact_resave(p, data_type, next) ==
    /\ pc[p] = "rd_" \o data_type
    /\ IF Loadable(store, PathOf(p, data_type))
       THEN /\ loc' = [loc EXCEPT ![p].art[data_type] = store[PathOf(p, data_type)].val]
            /\ store' = PutFile(store, PathOf(p, data_type),
                                Pickled(store[PathOf(p, data_type)].val, <<>>))
            /\ pc' = [pc EXCEPT ![p] = next]
            /\ UNCHANGED <<result, hist>>
       ELSE /\ Abort(p, "read", PathOf(p, data_type), ReadError(store, PathOf(p, data_type)))
            /\ UNCHANGED <<loc, store>>
    /\ UNCHANGED <<tile_size, q, crs, tiles, idx, acc, calls, nq, reqs, failedReqs, faults>>

\* lines 72-77: open and unpickle one artifact; open() of a missing file and
\* pickle.load() of a truncated one raise
ReadArtifact(p, data_type, next) ==
    /\ pc[p] = "rd_" \o data_type
    /\ IF Loadable(store, PathOf(p, data_type))
       THEN /\ loc' = [loc EXCEPT ![p].art[data_type] = store[PathOf(p, data_type)].val]
            /\ pc' = [pc EXCEPT ![p] = next]
            /\ UNCHANGED <<result, hist>>
       ELSE /\ Abort(p, "read", PathOf(p, data_type), ReadError(store, PathOf(p, data_type)))
            /\ UNCHANGED loc
    /\ UNCHANGED <<tile_size, store, q, crs, tiles, idx, acc, calls, nq, reqs, failedReqs, faults>>

Bump(f, k) == [x \in DOMAIN f \cup {k} |-> IF x \in DOMAIN f THEN f[x] + (IF x = k THEN 1 ELSE 0) ELSE 1]

\* mutant: the water request is sent with the tags of the parks request
TryRequest_parktags(data_type, bbox, fault) ==
    IF fault THEN None
    ELSE ServiceRequest(IF data_type = "water" THEN "parks" ELSE data_type, bbox)

\* what the local variable holds after "try: v = request except: v = None"
TryRequest(data_type, bbox, fault) ==
    IF fault THEN None ELSE ServiceRequest(data_type, bbox)

\* lines 83-96: one external request inside its try/except.  fault: the
\* service fails this request (network, rate limit, ...), which the model
\* lets happen in at most maxFaults _fetch_tile calls
FetchArtifact(p, data_type, next, maxFaults) ==
    /\ pc[p] = "fx_" \o data_type
    /\ \E fault \in BOOLEAN :
        /\ fault => (loc[p].faulty \/ faults < maxFaults)
        /\ LET v == TryRequest(data_type, loc[p].bbox.v, fault)
               exc == fault \/ IsNone(ServiceRequest(data_type, loc[p].bbox.v))
               path == PathOf(p, data_type)
           IN  /\ loc' = [loc EXCEPT ![p].art[data_type] = v,
                                     ![p].raised = IF exc THEN @ \cup {data_type} ELSE @,
                                     ![p].faulty = @ \/ fault]
               /\ reqs' = Bump(reqs, path)
               /\ failedReqs' = IF exc THEN failedReqs \cup {path} ELSE failedReqs
               /\ faults' = IF fault /\ ~loc[p].faulty THEN faults + 1 ELSE faults
    /\ pc' = [pc EXCEPT ![p] = next]
    /\ UNCHANGED <<tile_size, store, q, crs, tiles, idx, acc, result, calls, nq, hist>>

\* mutant: an artifact that is None is not written
WriteArtifact_skipNone(p, data_type, next) ==
    /\ pc[p] = "wr_" \o data_type
    /\ store' = IF IsNone(loc[p].art[data_type]) THEN store
                ELSE PutFile(store, PathOf(p, data_type),
                             Pickled(loc[p].art[data_type], loc[p].bbox.v))
    /\ pc' = [pc EXCEPT ![p] = next]
    /\ UNCHANGED <<tile_size, q, crs, tiles, idx, loc, acc, result, calls, nq,
                   reqs, failedReqs, faults, hist>>

\* mutant: a file that is there is left as it is
WriteArtifact_keepFirst(p, data_type, next) ==
    /\ pc[p] = "wr_" \o data_type
    /\ store' = IF PathOf(p, data_type) \in DOMAIN store THEN store
                ELSE PutFile(store, PathOf(p, data_type),
                             Pickled(loc[p].art[data_type], loc[p].bbox.v))
    /\ pc' = [pc EXCEPT ![p] = next]
    /\ UNCHANGED <<tile_size, q, crs, tiles, idx, loc, acc, result, calls, nq,
                   reqs, failedReqs, faults, hist>>

\* lines 99-104: open(path, 'wb') and pickle.dump of one artifact
WriteArtifact(p, data_type, next) ==
    /\ pc[p] = "wr_" \o data_type
    /\ store' = PutFile(store, PathOf(p, data_type),
                        Pickled(loc[p].art[data_type], loc[p].bbox.v))
    /\ pc' = [pc EXCEPT ![p] = next]
    /\ UNCHANGED <<tile_size, q, crs, tiles, idx, loc, acc, result, calls, nq,
                   reqs, failedReqs, faults, hist>>

\* "w is not None and not w.empty"
Contributes(w) == ~IsNone(w) /\ Len(w.v.rows) > 0

\* lines 123-129: _fetch_tile has returned (g, w, p); collect and go on
Collect(p) ==
    /\ pc[p] = "collect"
    /\ LET g == loc[p].art["graph"]
           w == loc[p].art["water"]
           pk == loc[p].art["parks"]
       IN  acc' = [acc EXCEPT
                     ![p].graphs = IF ~IsNone(g) THEN Append(@, g.v) ELSE @,
                     ![p].waters = IF Contributes(w) THEN Append(@, w.v) ELSE @,
                     ![p].parks_list = IF Contributes(pk) THEN Append(@, pk.v) ELSE @]
    /\ idx' = [idx EXCEPT ![p] = @ + 1]
    /\ pc' = [pc EXCEPT ![p] = IF idx[p] < Len(tiles[p]) THEN "call" ELSE "merge"]
    /\ UNCHANGED <<tile_size, store, q, crs, tiles, loc, result, calls, nq,
                   reqs, failedReqs, faults, hist>>

\* lines 131-154
Merge(p) ==
    /\ pc[p] = "merge"
    /\ LET r == MergeResult(acc[p].graphs, acc[p].waters, acc[p].parks_list)
       IN  /\ result' = [result EXCEPT ![p] = r]
           /\ pc' = [pc EXCEPT ![p] = r.status]
    /\ UNCHANGED <<tile_size, store, q, crs, tiles, idx, loc, acc, calls, nq,
                   reqs, failedReqs, faults, hist>>

\* the steps of a query that is under way
Resolve(p, maxFaults) ==
    \/ CheckCache(p)
    \/ ReadArtifact(p, "graph", "rd_water")
    \/ ReadArtifact(p, "water", "rd_parks")
    \/ ReadArtifact(p, "parks", "collect")
    \/ FetchArtifact(p, "graph", "fx_water", maxFaults)
    \/ FetchArtifact(p, "water", "fx_parks", maxFaults)
    \/ FetchArtifact(p, "parks", "wr_graph", maxFaults)
    \/ WriteArtifact(p, "graph", "wr_water")
    \/ WriteArtifact(p, "water", "wr_parks")
    \/ WriteArtifact(p, "parks", "collect")
    \/ Collect(p)
    \/ Merge(p)

\* a caller makes up to MaxQueries queries, one after the other
Step(p) ==
    \/ /\ nq < MaxQueries
       /\ \E c \in Centres, r \in Radii : get_merged_data(p, c[1], c[2], r)
    \/ Resolve(p, MaxFaultyFetches)

\* one process, a working store
Next == Step(1)

Spec == Init /\ [][Next]_vars

\* the same with queries of a radius beyond the tile size, 16 tiles each
StepWide(p) ==
    \/ /\ nq < MaxWideQueries
       /\ \E c \in Centres, r \in WideRadii : get_merged_data(p, c[1], c[2], r)
    \/ Resolve(p, MaxWideFaults)

NextWide == StepWide(1)

SpecWide == Init /\ [][NextWide]_vars

\* the queries of Spec with a service that fails no request (a request for
\* an area without nodes still raises)
StepCalm(p) ==
    \/ /\ nq < MaxCalmQueries
       /\ \E c \in Centres, r \in Radii : get_merged_data(p, c[1], c[2], r)
    \/ Resolve(p, 0)

NextCalm == StepCalm(1)

SpecCalm == Init /\ [][NextCalm]_vars

-----------------------------------------------------------------------------
(* Storage failures: the operating system fails an open, a read or a write  *)
(* of the cache directory (disk full, I/O error, permissions)               *)

\* lines 72-77: open(path, 'rb') or pickle.load raises on a file that is there
ReadFails(p) ==
    /\ \E d \in KindSet :
          /\ pc[p] = "rd_" \o d
          /\ Loadable(store, PathOf(p, d))
          /\ Abort(p, "read", PathOf(p, d), "OSError")
    /\ UNCHANGED <<tile_size, store, q, crs, tiles, idx, loc, acc, calls, nq,
                   reqs, failedReqs, faults>>

\* lines 99-104: open(path, 'wb') raises and leaves no file, or pickle.dump
\* raises and leaves the file that open created, truncated
WriteFails(p) ==
    /\ \E d \in KindSet, created \in BOOLEAN :
          /\ pc[p] = "wr_" \o d
          /\ store' = IF created THEN PutFile(store, PathOf(p, d), Truncated) ELSE store
          /\ Abort(p, "write", PathOf(p, d), "OSError")
    /\ UNCHANGED <<tile_size, q, crs, tiles, idx, loc, acc, calls, nq,
                   reqs, failedReqs, faults>>

\* the first centre of Centres, and a point on the meridian of 180 degrees,
\* for which _get_utm_zone gives 61
FaultCentres == { <<18002, -29998>>, <<18002, 72000>> }

\* one process whose storage can fail, and a service without faults
StepFaults(p) ==
    \/ /\ nq < MaxFaultQueries
       /\ \E c \in FaultCentres, r \in Radii : get_merged_data(p, c[1], c[2], r)
    \/ Resolve(p, 0)
    \/ ReadFails(p)
    \/ WriteFails(p)

NextFaults == StepFaults(1)

SpecFaults == Init /\ [][NextFaults]_vars

-----------------------------------------------------------------------------
(* Two processes, each with its own TileCache on the same cache directory:  *)
(* their steps interleave at the file operations and the requests.  The     *)
(* service and the storage work.                                            *)

\* the centre of zone 18 north and the one of zone 18 south of Centres: both
\* have tile (500, 4500), hence the same three file names
ConcCentres == { <<18002, -29998>>, <<-21998, -29998>> }
ConcRadii == {0}

StepConc(p) ==
    \/ /\ nq < MaxConcQueries
       /\ \E c \in ConcCentres, r \in ConcRadii : get_merged_data(p, c[1], c[2], r)
    \/ Resolve(p, 0)

NextConc == \E p \in Procs : StepConc(p)

SpecConc == Init /\ [][NextConc]_vars

-----------------------------------------------------------------------------
(* The tile geometry on its own: _lat_lon_to_tile and _get_required_tiles   *)
(* applied to one input.  The transformer is that of zone 18 north whatever *)
(* the point, so that points west of the false origin and south of the      *)
(* equator have negative planar coordinates.                                *)

MaxOffset == 5
TileSizes == {TILE_SIZE_M, 3 * MetresPerUnit}
TileRadii == {0, MetresPerUnit, 2 * MetresPerUnit, 6 * MetresPerUnit}
TileUtm == [zone |-> 18, hemisphere |-> "north"]
\* the longitude that TileUtm maps to x = 0
OriginLon == CentralMeridian(18) - (FalseEasting \div MetresPerUnit)

InitTiles ==
    /\ tile_size \in TileSizes
    /\ store = [k \in {} |-> None]
    /\ pc = [p \in Procs |-> IF p = 1 THEN "tiles_in" ELSE "idle"]
    /\ \E lat \in (-MaxOffset)..MaxOffset, dx \in (-MaxOffset)..MaxOffset, r \in TileRadii :
          q = [p \in Procs |-> IF p = 1 THEN [lat |-> lat, lon |-> OriginLon + dx, dist_m |-> r]
                               ELSE NoQuery]
    /\ crs = [p \in Procs |-> IF p = 1 THEN [to_utm |-> TileUtm, to_wgs |-> TileUtm, zone |-> 18]
                              ELSE NoCrs]
    /\ tiles = [p \in Procs |-> <<>>]
    /\ idx = [p \in Procs |-> 1]
    /\ loc = [p \in Procs |-> NoLoc]
    /\ acc = [p \in Procs |-> NoAcc]
    /\ result = [p \in Procs |-> NoResult]
    /\ calls = [p \in Procs |-> <<>>]
    /\ nq = 0
    /\ reqs = [k \in {} |-> 0]
    /\ failedReqs = {}
    /\ faults = 0
    /\ hist = [p \in Procs |-> NoHist]

\* tiles[p] := _get_required_tiles(lat, lon, dist_m, to_utm) and
\* (loc.tx, loc.ty) := _lat_lon_to_tile(lat, lon, to_utm)
ApplyTiles(p) ==
    /\ pc[p] = "tiles_in"
    /\ tiles' = [tiles EXCEPT ![p] =
                    get_required_tiles(q[p].lat, q[p].lon, q[p].dist_m, crs[p].to_utm)]
    /\ LET t == lat_lon_to_tile(q[p].lat, q[p].lon, crs[p].to_utm)
       IN  loc' = [loc EXCEPT ![p].tx = t[1], ![p].ty = t[2]]
    /\ pc' = [pc EXCEPT ![p] = "tiles_out"]
    /\ UNCHANGED <<tile_size, store, q, crs, idx, acc, result, calls, nq,
                   reqs, failedReqs, faults, hist>>

NextTiles == ApplyTiles(1)

SpecTiles == InitTiles /\ [][NextTiles]_vars

-----------------------------------------------------------------------------
(* Claims *)

\* the planar centre and square of the query of process p
Centre(p) == to_utm_transform(crs[p].to_utm, q[p].lon, q[p].lat)

\* the half-open range of tile t meets the closed square of half-width r about c
Intersects(t, c, r) ==
    /\ t[1] * tile_size <= c[1] + r /\ (t[1] + 1) * tile_size > c[1] - r
    /\ t[2] * tile_size <= c[2] + r /\ (t[2] + 1) * tile_size > c[2] - r

\* every tile index that a square of the geometry inputs can meet
UniverseHalf == MaxOffset + 6 + 2
TileUniverse == ((-UniverseHalf)..UniverseHalf) \X ((-UniverseHalf)..UniverseHalf)

NoDuplicates(s) == Cardinality(Range(s)) = Len(s)

\* C7: the list _get_required_tiles returns holds exactly the tiles whose
\* half-open range meets the closed square [cx-r, cx+r] x [cy-r, cy+r], each
\* once, also for negative planar coordinates.
C7_RequiredTilesExact ==
    pc[1] = "tiles_out" =>
        /\ \A t \in Range(tiles[1]) : Intersects(t, Centre(1), q[1].dist_m)
        /\ \A t \in TileUniverse :
              Intersects(t, Centre(1), q[1].dist_m) => t \in Range(tiles[1])
        /\ NoDuplicates(tiles[1])

\* a square about a centre with negative x and y that spans several tiles
C7_Witness ==
    /\ pc[1] = "tiles_out"
    /\ Centre(1)[1] < 0 /\ Centre(1)[2] < 0
    /\ q[1].dist_m > 0
    /\ Len(tiles[1]) >= 4

\* C8: the tile of the centre point is among the required tiles, and for
\* radius 0 it is the only one, also for a centre on a tile boundary.
C8_CentreTileCovered ==
    pc[1] = "tiles_out" =>
        /\ <<loc[1].tx, loc[1].ty>> \in Range(tiles[1])
        /\ q[1].dist_m = 0 => tiles[1] = << <<loc[1].tx, loc[1].ty>> >>

\* radius 0 about a centre that lies on a tile corner, with negative x
C8_Witness ==
    /\ pc[1] = "tiles_out"
    /\ q[1].dist_m = 0
    /\ Centre(1)[1] % tile_size = 0 /\ Centre(1)[2] % tile_size = 0
    /\ Centre(1)[1] < 0
    /\ Len(tiles[1]) = 1

-----------------------------------------------------------------------------
(* Claims about the cache, under Spec *)

TilePaths(t, zone) == {tile_path(t[1], t[2], zone, k) : k \in KindSet}

\* p is inside a _fetch_tile call that took the fetch branch
Fetching(p) == pc[p] \in {"fx_graph", "fx_water", "fx_parks", "wr_graph", "wr_water", "wr_parks"}

\* p is back from a _fetch_tile call, its three values in loc[p].art
Back(p) == pc[p] = "collect"

\* C1: no tile_path is requested from the external service more than once,
\* and a _fetch_tile call that finds the tile cached returns the three
\* persisted artifacts.
C1_FetchedAtMostOnce ==
    /\ \A k \in DOMAIN reqs : reqs[k] <= 1
    /\ \A p \in Procs : (Back(p) /\ loc[p].hit) =>
          \A k \in KindSet :
              /\ PathOf(p, k) \in DOMAIN store
              /\ loc[p].art[k] = store[PathOf(p, k)].val

\* a second query resolves from the cache a tile whose graph an earlier
\* query fetched
C1_Witness ==
    /\ nq = 2
    /\ Back(1) /\ loc[1].hit
    /\ PathOf(1, "graph") \in DOMAIN reqs
    /\ ~IsNone(loc[1].art["graph"])

\* C2: a tile_path whose external request raised was requested once only, is
\* persisted as None by the end of that call and stays None, and a later
\* _fetch_tile of the tile returns None for it.
C2_FailedFetchCachedAsNone ==
    \A k \in failedReqs :
        /\ reqs[k] = 1
        /\ k \in DOMAIN store => IsNone(store[k].val)
        /\ k \notin DOMAIN store => \E p \in Procs : Fetching(p) /\ k \in TilePaths(<<loc[p].tx, loc[p].ty>>, crs[p].zone)
        /\ \A p \in Procs : \A d \in KindSet :
              (Back(p) /\ PathOf(p, d) = k) => IsNone(loc[p].art[d])

\* a cache hit returns None for a dataset whose request failed earlier
\* although the service has data for the tile there now
C2_Witness ==
    /\ Back(1) /\ loc[1].hit
    /\ \E d \in KindSet :
          /\ PathOf(1, d) \in failedReqs
          /\ IsNone(loc[1].art[d])
          /\ ~IsNone(ServiceRequest(d, tile_to_bbox(loc[1].tx, loc[1].ty, crs[1].to_wgs)))

\* the datasets of the running call whose request is behind it
Requested(p) ==
    CASE pc[p] = "fx_graph" -> {}
      [] pc[p] = "fx_water" -> {"graph"}
      [] pc[p] = "fx_parks" -> {"graph", "water"}
      [] OTHER -> KindSet

\* C3: on a cache miss, whatever requests raised, the call goes on to the
\* end and holds None for exactly the datasets whose request raised and the
\* value the service gave for each of the others.
C3_RequestsIndependent ==
    \A p \in Procs : ((Fetching(p) \/ Back(p)) /\ ~loc[p].hit) =>
        /\ loc[p].raised \subseteq Requested(p)
        /\ \A d \in Requested(p) :
              /\ d \in loc[p].raised => IsNone(loc[p].art[d])
              /\ d \notin loc[p].raised =>
                    /\ ~IsNone(loc[p].art[d])
                    /\ loc[p].art[d] = ServiceRequest(d, tile_to_bbox(loc[p].tx, loc[p].ty, crs[p].to_wgs))
        /\ Back(p) => result[p].status = "none"

\* a miss whose water request raised and whose graph and parks requests gave
\* values, returned by the call
C3_Witness ==
    /\ Back(1) /\ ~loc[1].hit
    /\ loc[1].raised = {"water"}
    /\ ~IsNone(loc[1].art["graph"])
    /\ ~IsNone(loc[1].art["parks"])
    /\ ~IsNone(ServiceRequest("water", loc[1].bbox.v))

\* the for loop of the query of p has run over all its tiles
LoopDone(p) == pc[p] \in {"merge", "returned", "raised"} /\ idx[p] > Len(tiles[p])

\* the value persisted for dataset d of tile t in the zone of the query of p
Stored(p, t, d) == store[tile_path(t[1], t[2], crs[p].zone, d)].val

\* C4 (as claimed): a cache file that a _fetch_tile call reads was written
\* for the bounding box that this call's tile has under its own projection.
C4_SameKeySameBBox ==
    \A p \in Procs : \A d \in KindSet :
        (pc[p] = "rd_" \o d /\ PathOf(p, d) \in DOMAIN store) =>
            store[PathOf(p, d)].bbox = tile_to_bbox(loc[p].tx, loc[p].ty, crs[p].to_wgs)

\* C5 (as claimed): a query of radius 500 with tile_size 1000 requires one
\* tile and makes one _fetch_tile call.
C5_SingleTile ==
    \A p \in Procs : (LoopDone(p) /\ q[p].dist_m = 500 /\ tile_size = 1000) =>
        /\ Len(tiles[p]) = 1
        /\ Len(calls[p]) = 1

\* C5 (amended): a query of radius 500 with tile_size 1000 requires exactly
\* four distinct tiles, _fetch_tile is called exactly once for each of them,
\* in list order, and a call that fetches requests that tile's bounding box.
C5_FourTiles ==
    \A p \in Procs :
        /\ (LoopDone(p) /\ q[p].dist_m = 500 /\ tile_size = 1000) =>
              /\ Len(tiles[p]) = 4
              /\ NoDuplicates(tiles[p])
              /\ calls[p] = tiles[p]
        /\ Fetching(p) =>
              /\ <<loc[p].tx, loc[p].ty>> = CurTile(p)
              /\ loc[p].bbox = Some(tile_to_bbox(CurTile(p)[1], CurTile(p)[2], crs[p].to_wgs))

\* a query of radius 500 has resolved its four tiles, fetching the last one
C5_Witness ==
    /\ LoopDone(1)
    /\ q[1].dist_m = 500
    /\ Len(calls[1]) = 4
    /\ ~loc[1].hit

\* C6: when get_merged_data has returned, the three artifacts of every tile
\* of the query are in the store, whatever the requests gave; a query of
\* radius 1500 with tile_size 1000 has at least 4 distinct tiles.
C6_AllArtifactsPersisted ==
    \A p \in Procs : pc[p] = "returned" =>
        /\ \A t \in Range(tiles[p]) : TilePaths(t, crs[p].zone) \subseteq DOMAIN store
        /\ (q[p].dist_m = 1500 /\ tile_size = 1000) => Cardinality(Range(tiles[p])) >= 4

\* a query of radius 1500 has returned; some of its requests raised and one
\* of its tiles has a graph
C6_Witness ==
    /\ pc[1] = "returned"
    /\ q[1].dist_m = 1500
    /\ \E t \in Range(tiles[1]) : TilePaths(t, crs[1].zone) \cap failedReqs # {}
    /\ \E t \in Range(tiles[1]) : ~IsNone(Stored(1, t, "graph"))

\* C9: the graph of a returned result is never None, and it is the empty
\* graph when every tile of the query has a None graph.
C9_GraphNeverNull ==
    \A p \in Procs : pc[p] = "returned" =>
        /\ ~IsNone(result[p].graph)
        /\ (\A t \in Range(tiles[p]) : IsNone(Stored(p, t, "graph"))) =>
              result[p].graph.v = EmptyGraph

\* a query over several tiles, all with a None graph, has returned
C9_Witness ==
    /\ pc[1] = "returned"
    /\ Len(tiles[1]) > 1
    /\ \A t \in Range(tiles[1]) : IsNone(Stored(1, t, "graph"))
    /\ result[1].graph = Some(EmptyGraph)

\* C10 (as claimed): a query that has resolved all its tiles gives a result
\* whose water entry, and whose parks entry, is None exactly when no tile
\* has a non-empty collection of that category.
C10_NullIffNoContribution ==
    \A p \in Procs : (LoopDone(p) /\ pc[p] # "merge") =>
        /\ result[p].status = "returned"
        /\ \A d \in {"water", "parks"} :
              IsNone(result[p][d]) <=> ~\E t \in Range(tiles[p]) : Contributes(Stored(p, t, d))

-----------------------------------------------------------------------------
(* Claims about the merge *)

Ids(entries) == {e.id : e \in entries}

\* the attributes that the first of the graphs holding id gives it
FirstAttr(graphs, part, id) ==
    LET k == CHOOSE k \in 1..Len(graphs) :
                /\ id \in Ids(graphs[k][part])
                /\ \A j \in 1..(k - 1) : id \notin Ids(graphs[j][part])
    IN  (CHOOSE e \in graphs[k][part] : e.id = id).attr

\* C11 (as claimed): in the merged graph of a query every node and edge of
\* the tiles' graphs appears exactly once, and it carries the attributes of
\* the first tile, in the order of the query, whose graph holds it.
C11_FirstTileWins ==
    \A p \in Procs : LoopDone(p) =>
        LET graphs == acc[p].graphs
            merged == MergeGraphs(graphs).v
        IN  /\ pc[p] = "returned" => result[p].graph.v = merged
            /\ \A part \in {"nodes", "edges"} :
                  /\ Ids(merged[part]) = UNION {Ids(graphs[k][part]) : k \in 1..Len(graphs)}
                  /\ Cardinality(merged[part]) = Cardinality(Ids(merged[part]))
                  /\ \A e \in merged[part] : e.attr = FirstAttr(graphs, part, e.id)

\* the per-tile collections of category d that the query of p has gathered
Gathered(p, d) == IF d = "water" THEN acc[p].waters ELSE acc[p].parks_list

\* the full records (all columns) of the rows of a collection
Records(df) == {df.rows[k].geometry : k \in 1..Len(df.rows)}

\* two of the collections hold a row with the same full record
SharedRow(frames) ==
    \E i, j \in 1..Len(frames) : i # j /\ Records(frames[i]) \cap Records(frames[j]) # {}

\* C12 (as claimed): when two tiles of a query contribute collections of one
\* category that share a fully identical row, get_merged_data returns for
\* that category a collection holding every record exactly once.
C12_OneCopyOfSharedRow ==
    \A p \in Procs : \A d \in {"water", "parks"} :
        (LoopDone(p) /\ pc[p] # "merge" /\ SharedRow(Gathered(p, d))) =>
            /\ result[p].status = "returned"
            /\ ~IsNone(result[p][d])
            /\ \A g \in UNION {Records(Gathered(p, d)[k]) : k \in 1..Len(Gathered(p, d))} :
                  Cardinality({k \in 1..Len(result[p][d].v.rows) :
                                  result[p][d].v.rows[k].geometry = g}) = 1

-----------------------------------------------------------------------------
(* Claims about effects and failures *)

\* p is inside a _fetch_tile call that took the cache-hit branch
Loading(p) == loc[p].hit /\ pc[p] \in {"rd_graph", "rd_water", "rd_parks"}

\* C13: the cache check and every step of the cache-hit branch of
\* _fetch_tile leave the store and the external requests as they are, and
\* while a query has had only cache hits the store and the requests are
\* those of the moment the query began.
C13_HitHasNoSideEffects ==
    /\ [](\A p \in Procs : (pc[p] # "idle" /\ hist[p].misses = 0) =>
              (store = hist[p].store0 /\ reqs = hist[p].reqs0))
    /\ [][\A p \in Procs : ((pc[p] = "call" \/ Loading(p)) /\ pc'[p] # pc[p]) =>
              (store' = store /\ reqs' = reqs)]_vars

\* a query of four tiles, all cached by an earlier query, has run through
C13_Witness ==
    /\ LoopDone(1)
    /\ Len(calls[1]) = 4
    /\ hist[1].misses = 0
    /\ hist[1].store0 # [k \in {} |-> None]
    /\ store = hist[1].store0

\* the restriction of a function to the keys in ks that it has
Restrict(f, ks) == [k \in DOMAIN f \cap ks |-> f[k]]

\* the keys of the tiles of the query of p from position k on
PathsFrom(p, k) == UNION {TilePaths(tiles[p][j], crs[p].zone) : j \in k..Len(tiles[p])}

\* C14: a query whose centre has no valid projection (zone outside 1..60)
\* ends with the projection's exception before anything else: no tile is
\* computed or resolved, no request is issued, the store is as it was.
C14_ProjectionFailureFirst ==
    \A p \in Procs : (pc[p] # "idle" /\ get_utm_zone(q[p].lon) \notin 1..60) =>
        /\ pc[p] = "raised"
        /\ result[p] = Raised("CRSError")
        /\ tiles[p] = <<>> /\ calls[p] = <<>>
        /\ hist[p].misses = 0
        /\ store = hist[p].store0
        /\ reqs = hist[p].reqs0

\* a query on the meridian of 180 degrees raised, after a query that had
\* filled the store
C14_Witness ==
    /\ pc[1] = "raised"
    /\ result[1] = Raised("CRSError")
    /\ q[1].lon = 180 * UnitsPerDegree
    /\ store # [k \in {} |-> None]
    /\ store = hist[1].store0

\* C15: once a storage operation of a query has failed, the query has raised
\* (it has no result and resolves nothing more): _fetch_tile was called for
\* the tiles up to the failing one only, and the files and request counts
\* of the tiles after it are those of the moment the query began.
C15_StorageFailureFatal ==
    \A p \in Procs : ~IsNone(hist[p].io) =>
        /\ pc[p] = "raised"
        /\ result[p].status = "raised"
        /\ idx[p] <= Len(tiles[p])
        /\ calls[p] = SubSeq(tiles[p], 1, idx[p])
        /\ hist[p].io.v[2] \in TilePaths(CurTile(p), crs[p].zone)
        /\ LET later == PathsFrom(p, idx[p] + 1)
           IN  /\ Restrict(store, later) = Restrict(hist[p].store0, later)
               /\ Restrict(reqs, later) = Restrict(hist[p].reqs0, later)

\* the write of the second of four tiles failed: one tile was resolved
\* before it, two were still to come
C15_Witness ==
    /\ pc[1] = "raised"
    /\ ~IsNone(hist[1].io)
    /\ hist[1].io.v[1] = "write"
    /\ Len(tiles[1]) = 4 /\ idx[1] = 2
    /\ TilePaths(tiles[1][1], crs[1].zone) \subseteq DOMAIN store

\* the (zone, tile) pairs that have a file in the store
StoredTiles == {<<k[1], <<k[3], k[4]>>>> : k \in DOMAIN store}

\* the graph of tile zt is in the store, its water or its parks cannot be loaded
Partial(zt) ==
    /\ Loadable(store, tile_path(zt[2][1], zt[2][2], zt[1], "graph"))
    /\ \E d \in {"water", "parks"} : ~Loadable(store, tile_path(zt[2][1], zt[2][2], zt[1], d))

\* the tile of the _fetch_tile call that p is in, or was in when it raised
CallTile(p) == <<crs[p].zone, <<loc[p].tx, loc[p].ty>>>>

\* tile zt is partial and no _fetch_tile call is persisting it
Stuck(zt) == Partial(zt) /\ ~\E p \in Procs : Fetching(p) /\ CallTile(p) = zt

\* C19: with one caller, a tile whose persisting failed after the graph was
\* written and before water and parks were stays partial for ever: no step
\* changes its files or requests it again; a _fetch_tile call of it is in
\* the cache-hit branch and does not return; a call of it that has raised
\* after a hit failed in a read; no query covering it gets through its loop.
C19_PartialTileStuck ==
    /\ [][\A zt \in StoredTiles : Stuck(zt) =>
              /\ Stuck(zt)'
              /\ Restrict(store', TilePaths(zt[2], zt[1])) = Restrict(store, TilePaths(zt[2], zt[1]))
              /\ Restrict(reqs', TilePaths(zt[2], zt[1])) = Restrict(reqs, TilePaths(zt[2], zt[1]))]_vars
    /\ [](\A p \in Procs :
              /\ (pc[p] \notin {"idle", "call", "merge", "returned", "raised"} /\ Stuck(CallTile(p))) =>
                    Loading(p)
              /\ (pc[p] = "raised" /\ ~IsNone(hist[p].io) /\ loc[p].hit /\ Stuck(CallTile(p))) =>
                    /\ hist[p].io.v[1] = "read"
                    /\ result[p].exc \in {"FileNotFoundError", "UnpicklingError", "OSError"}
              /\ LoopDone(p) => \A t \in Range(tiles[p]) : ~Stuck(<<crs[p].zone, t>>))

\* the third query: its call of a tile left partial by an earlier query
\* took the hit branch and raised at the missing water file, without any
\* further request
C19_Witness ==
    /\ nq = 3
    /\ pc[1] = "raised"
    /\ loc[1].hit
    /\ Stuck(CallTile(1))
    /\ result[1] = Raised("FileNotFoundError")
    /\ hist[1].io = Some(<<"read", PathOf(1, "water")>>)
    /\ reqs[PathOf(1, "graph")] = 1

\* p is inside a _fetch_tile call
InCall(p) == Loading(p) \/ Fetching(p)

\* all three artifacts of tile zt are in the store
Complete(zt) == TilePaths(zt[2], zt[1]) \subseteq DOMAIN store

\* none of them is
Absent(zt) == TilePaths(zt[2], zt[1]) \cap DOMAIN store = {}

\* C18: with one caller and a working store, while no _fetch_tile call is
\* in progress every tile that has a file in the store has all three, and
\* the check of line 71 for the tile to be resolved next finds the graph
\* exactly when all three files exist, and misses exactly when none does.
C18_AllOrNothing ==
    (\A p \in Procs : ~InCall(p)) =>
        /\ \A zt \in StoredTiles : Complete(zt)
        /\ \A p \in Procs : pc[p] = "call" =>
              LET zt == <<crs[p].zone, CurTile(p)>>
              IN  /\ CacheHit(CurTile(p)[1], CurTile(p)[2], crs[p].zone) <=> Complete(zt)
                  /\ ~CacheHit(CurTile(p)[1], CurTile(p)[2], crs[p].zone) <=> Absent(zt)

\* a query of four tiles is about to check its first tile, which an earlier
\* query has persisted with a None among its artifacts; its last is not cached
C18_Witness ==
    /\ pc[1] = "call" /\ idx[1] = 1
    /\ Len(tiles[1]) = 4
    /\ CacheHit(CurTile(1)[1], CurTile(1)[2], crs[1].zone)
    /\ \E d \in KindSet : IsNone(Stored(1, CurTile(1), d))
    /\ Absent(<<crs[1].zone, tiles[1][4]>>)

-----------------------------------------------------------------------------
(* Claims about the projection of a query *)

\* the projection and the zone of the centre of the query of p
CentreUtm(p) == get_transformers(q[p].lat, q[p].lon)
CentreZone(p) == get_utm_zone(q[p].lon)

\* the cache key of dataset d of the call's tile under the centre's zone
CentreKey(p, d) == tile_path(loc[p].tx, loc[p].ty, CentreZone(p), d)

\* the zone in which the west edge of the call's tile lies
TileGeoZone(p) == get_utm_zone(tile_to_bbox(loc[p].tx, loc[p].ty, CentreUtm(p))[4])

\* the datasets that the running fetch has written
Written(p) ==
    CASE pc[p] = "wr_water" -> {"graph"}
      [] pc[p] = "wr_parks" -> {"graph", "water"}
      [] pc[p] = "collect" /\ ~loc[p].hit -> KindSet
      [] OTHER -> {}

\* the datasets that the running hit has read
Loaded(p) ==
    CASE pc[p] = "rd_water" -> {"graph"}
      [] pc[p] = "rd_parks" -> {"graph", "water"}
      [] pc[p] = "collect" /\ loc[p].hit -> KindSet
      [] OTHER -> {}

\* C16: all through a query the tile list is the one computed with the
\* projection of the query's centre, every bounding box requested is the
\* tile's box under that projection, and every file written or read and
\* every request is keyed by the centre's zone, whatever zone the tile
\* lies in; so every file in the store carries the zone of some centre.
C16_OneProjectionPerQuery ==
    /\ \A k \in DOMAIN store : k[1] \in {get_utm_zone(c[2]) : c \in Centres}
    /\ \A p \in Procs : pc[p] \notin {"idle", "tiles_in", "tiles_out"} =>
          /\ tiles[p] = get_required_tiles(q[p].lat, q[p].lon, q[p].dist_m, CentreUtm(p))
          /\ (InCall(p) \/ Back(p)) =>
                /\ <<loc[p].tx, loc[p].ty>> = CurTile(p)
                /\ ~loc[p].hit => loc[p].bbox = Some(tile_to_bbox(loc[p].tx, loc[p].ty, CentreUtm(p)))
                /\ \A d \in Written(p) :
                      /\ CentreKey(p, d) \in DOMAIN store
                      /\ store[CentreKey(p, d)] = Pickled(loc[p].art[d], loc[p].bbox.v)
                /\ \A d \in Loaded(p) :
                      /\ CentreKey(p, d) \in DOMAIN store
                      /\ store[CentreKey(p, d)].val = loc[p].art[d]
                /\ ~loc[p].hit => \A d \in Requested(p) : CentreKey(p, d) \in DOMAIN reqs

\* a tile that lies west of the boundary of zones 17 and 18 was fetched and
\* written for a query whose centre is in zone 18
C16_Witness ==
    /\ Back(1) /\ ~loc[1].hit
    /\ CentreZone(1) = 18
    /\ TileGeoZone(1) = 17
    /\ \A d \in KindSet : tile_path(loc[1].tx, loc[1].ty, 18, d) \in DOMAIN store

-----------------------------------------------------------------------------
(* Claims about two processes, under SpecConc *)

\* p is in, or back from, a _fetch_tile call that missed the cache
Missed(p) == (Fetching(p) \/ Back(p)) /\ ~loc[p].hit

\* the processes whose running call missed on the tile of p's call and has
\* sent its request for dataset d
Requesters(p, d) ==
    {r \in Procs : Missed(r) /\ CallTile(r) = CallTile(p) /\ d \in Requested(r)}

\* C17: nothing but the graph file decides the cache check, whatever the
\* other process is doing; every call that missed sends its own requests
\* (the request count of a file is at least the number of calls that are
\* fetching it); and every write replaces whatever file is there.
C17_FetchesNotExcluded ==
    /\ [](\A p \in Procs : \A d \in KindSet :
              (Missed(p) /\ d \in Requested(p)) =>
                  reqs[PathOf(p, d)] >= Cardinality(Requesters(p, d)))
    /\ [][\A p \in Procs :
              /\ (pc[p] = "call" /\ pc'[p] # "call") =>
                    (pc'[p] = "fx_graph" <=>
                        tile_path(CurTile(p)[1], CurTile(p)[2], crs[p].zone, "graph") \notin DOMAIN store)
              /\ \A d \in KindSet : (pc[p] = "wr_" \o d /\ pc'[p] # pc[p]) =>
                    /\ PathOf(p, d) \in DOMAIN store'
                    /\ store'[PathOf(p, d)] = Pickled(loc[p].art[d], loc[p].bbox.v)]_vars

\* both processes, querying the same point, missed on the same tile, each
\* sent the three requests and each wrote the three files
C17_Witness ==
    /\ q[1] = q[2]
    /\ Back(1) /\ Back(2)
    /\ ~loc[1].hit /\ ~loc[2].hit
    /\ CallTile(1) = CallTile(2)
    /\ \A d \in KindSet : reqs[PathOf(1, d)] = 2 /\ PathOf(1, d) \in DOMAIN store

\* C20: with a working service and storage, a read of the hit branch
\* raises exactly when its file is not there, and that happens only at the
\* water or the parks file of a tile whose graph file is there and which
\* another process is persisting at that moment.
C20_HitOnHalfWrittenTile ==
    [][\A p \in Procs : \A d \in KindSet :
          (pc[p] = "rd_" \o d /\ pc'[p] # pc[p]) =>
              /\ pc'[p] = "raised" <=> PathOf(p, d) \notin DOMAIN store
              /\ pc'[p] = "raised" =>
                    /\ result'[p] = Raised("FileNotFoundError")
                    /\ d \in {"water", "parks"}
                    /\ PathOf(p, "graph") \in DOMAIN store
                    /\ \E r \in Procs \ {p} :
                          /\ CallTile(r) = CallTile(p)
                          /\ pc[r] \in {"wr_water", "wr_parks"}]_vars

\* process 1 took the hit branch on the graph file that process 2 had just
\* written and raised at the water file, which process 2 has yet to write
C20_Witness ==
    /\ faults = 0 /\ failedReqs = {}
    /\ pc[1] = "raised"
    /\ loc[1].hit
    /\ result[1] = Raised("FileNotFoundError")
    /\ hist[1].io = Some(<<"read", PathOf(1, "water")>>)
    /\ pc[2] = "wr_water"
    /\ CallTile(2) = CallTile(1)
    /\ PathOf(1, "water") \notin DOMAIN store

====
